---- MODULE Spec2Model ----
(***************************************************************************)
(* Polymarket position monitor: the change detector (detect_changes), the  *)
(* snapshot store (state_manager), the notifier (send_events), the HTTP    *)
(* client (get_json, post_json), the username resolver (resolve_username)  *)
(* and the cycle orchestrator (run_cycle).                                 *)
(*                                                                         *)
(* Representation.  A share count (Position.size, a float) is an integer   *)
(* number of hundredths of a share, so the detector's 0.5-share threshold  *)
(* is 50.  A token_id is a natural number; 0 is the empty string, the only *)
(* falsy token_id.  Python's None is the empty tuple and a present value x *)
(* is <<x>>.  A dict is a record of its keys in insertion order and its    *)
(* key -> value function.                                                  *)
(***************************************************************************)
EXTENDS Integers, Sequences, FiniteSets, TLC

VARIABLES
    pc,          \* position of run_cycle (or of a function run on its own)
    idx,         \* index of the user being processed in the monitored list
    address,     \* run_cycle: address
    current,     \* run_cycle: current_positions
    previous,    \* run_cycle: previous_positions
    first_run,   \* run_cycle: first_run
    events,      \* run_cycle: events
    sends,       \* events handed to the Telegram transport for this user
    delivered,   \* per handed event, whether send_event returned True
    sent,        \* run_cycle: sent
    outcome,     \* how the user's pipeline ended
    state_file,  \* data/state.json
    cache,       \* profile_resolver._cache: lowercased username -> address
    cfg,         \* AppConfig
    clock,       \* datetime.now()
    fetched,     \* history: fetch_positions returned in this pipeline
    saved,       \* history: addresses save_state has been called for
    deliveries,  \* send_events on its own: the transport's outcome per event
    events2,     \* detect_changes on its own: the result of a second call
    http,        \* get_json / post_json on its own: the call in progress
    rcall,       \* resolve_username on its own: the last call, and history
    api_json,    \* fetch_positions on its own: what get_json returned
    loaded       \* the store on its own: what get_state returned

vars == <<pc, idx, address, current, previous, first_run, events, sends,
          delivered, sent, outcome, state_file, cache, cfg, clock, fetched,
          saved, deliveries, events2, http, rcall, api_json, loaded>>

\* run_cycle's variables
run == <<pc, idx, address, current, previous, first_run, events, sends,
         delivered, sent, outcome, state_file, cache, cfg, clock, fetched,
         saved>>

\* the variables of the specifications that run one function on its own
solo == <<deliveries, events2, http, rcall, api_json, loaded>>

----------------------------------------------------------------------------
(* Bounds and program constants *)

NumTokens == 3
NoToken == 0
IncreaseThreshold == 50

None == <<>>
Some(x) == <<x>>

\* Input domains.  Sizes differ by 0, 0.01, 0.50 and 0.51 shares, either way.
\* A snapshot holds at most two positions: enough for a new, an increased
\* and a closed token at once, for a repeated token_id and for an empty one.
TokenIds == NoToken..NumTokens
Sizes == {100, 150, 151}
SnapshotLengths == {0, 1, 2}

----------------------------------------------------------------------------
(* models.py *)

Position(token_id, size) ==
    [token_id |-> token_id, side |-> "Yes", size |-> size]

MonitoredUser(username, wallet_address) ==
    [username |-> username, wallet_address |-> wallet_address]

EventType == {"new_position", "position_increased", "position_closed"}

ChangeEvent(event_type, user, position, previous_size, detected_at) ==
    [event_type |-> event_type, user |-> user, position |-> position,
     previous_size |-> previous_size, detected_at |-> detected_at]

----------------------------------------------------------------------------
(* Python dict: insertion-ordered keys, last value written wins *)

EmptyDict == [keys |-> <<>>, val |-> <<>>]

DictHas(d, k) == k \in DOMAIN d.val

\* a dict that keeps the value a key was first given
DictPutFirstWins(d, k, v) ==
    [keys |-> IF DictHas(d, k) THEN d.keys ELSE Append(d.keys, k),
     val  |-> d.val @@ (k :> v)]
DictPut(d, k, v) ==
    [keys |-> IF DictHas(d, k) THEN d.keys ELSE Append(d.keys, k),
     val  |-> (k :> v) @@ d.val]

Truthy(token_id) == token_id # NoToken

\* {p.token_id: p for p in positions if p.token_id}
RECURSIVE TokenMapUnfiltered(_)
TokenMapUnfiltered(positions) ==
    IF positions = <<>> THEN EmptyDict
    ELSE LET p == positions[Len(positions)]
             d == TokenMapUnfiltered(SubSeq(positions, 1, Len(positions) - 1))
         IN  DictPut(d, p.token_id, p)
RECURSIVE TokenMap(_)
TokenMap(positions) ==
    IF positions = <<>> THEN EmptyDict
    ELSE LET p == positions[Len(positions)]
             d == TokenMap(SubSeq(positions, 1, Len(positions) - 1))
         IN  IF Truthy(p.token_id) THEN DictPut(d, p.token_id, p) ELSE d

----------------------------------------------------------------------------
(* agents/change_detector.py *)

\* detected_at left to the dataclass default, a later reading of the clock
NewPositionEventOwnTime(user, curr, now) ==
    ChangeEvent("new_position", user, curr, None, now + 1)
NewPositionEvent(user, curr, now) ==
    ChangeEvent("new_position", user, curr, None, now)

PositionIncreasedEvent(user, curr, prev, now) ==
    ChangeEvent("position_increased", user, curr, Some(prev.size), now)

\* previous_size=prev.size, detected_at=now
PositionClosedEventNullSize(user, prev, now) ==
    ChangeEvent("position_closed", user, prev, None, now)
PositionClosedEvent(user, prev, now) ==
    ChangeEvent("position_closed", user, prev, Some(prev.size), now)

\* curr.size > prev.size + 0.5
MeaningfulIncreaseOrSame(curr, prev) == curr.size >= prev.size
MeaningfulIncreaseInclusive(curr, prev) ==
    curr.size >= prev.size + IncreaseThreshold
MeaningfulIncreaseEitherWay(curr, prev) ==
    \/ curr.size > prev.size + IncreaseThreshold
    \/ prev.size > curr.size + IncreaseThreshold
MeaningfulIncrease(curr, prev) == curr.size > prev.size + IncreaseThreshold

\* body of "for token_id, curr in curr_map.items()"
CurrStepAlwaysNew(user, token_id, curr_map, prev_map, detect_increases, now) ==
    <<NewPositionEvent(user, curr_map.val[token_id], now)>>
CurrStep(user, token_id, curr_map, prev_map, detect_increases, now) ==
    LET curr == curr_map.val[token_id]
    IN  IF ~DictHas(prev_map, token_id)
        THEN <<NewPositionEvent(user, curr, now)>>
        ELSE IF detect_increases
             THEN LET prev == prev_map.val[token_id]
                  IN  IF MeaningfulIncrease(curr, prev)
                      THEN <<PositionIncreasedEvent(user, curr, prev, now)>>
                      ELSE <<>>
             ELSE <<>>

\* body of "for token_id, prev in prev_map.items()"
PrevStep(user, token_id, curr_map, prev_map, now) ==
    IF ~DictHas(curr_map, token_id)
    THEN <<PositionClosedEvent(user, prev_map.val[token_id], now)>>
    ELSE <<>>

detect_changes_closures_always(user, current_positions, previous_positions, detect_increases, detect_closures, now) ==
    LET prev_map == TokenMap(previous_positions)
        curr_map == TokenMap(current_positions)
        RECURSIVE CurrLoop(_)
        CurrLoop(n) ==
            IF n = 0 THEN <<>>
            ELSE CurrLoop(n - 1) \o
                 CurrStep(user, curr_map.keys[n], curr_map, prev_map,
                          detect_increases, now)
        RECURSIVE PrevLoop(_)
        PrevLoop(n) ==
            IF n = 0 THEN <<>>
            ELSE PrevLoop(n - 1) \o
                 PrevStep(user, prev_map.keys[n], curr_map, prev_map, now)
    IN  CurrLoop(Len(curr_map.keys)) \o PrevLoop(Len(prev_map.keys))
detect_changes_three_passes(user, current_positions, previous_positions, detect_increases, detect_closures, now) ==
    LET prev_map == TokenMap(previous_positions)
        curr_map == TokenMap(current_positions)
        RECURSIVE NewLoop(_)
        NewLoop(n) ==
            IF n = 0 THEN <<>>
            ELSE NewLoop(n - 1) \o
                 (IF DictHas(prev_map, curr_map.keys[n]) THEN <<>>
                  ELSE CurrStep(user, curr_map.keys[n], curr_map, prev_map,
                                detect_increases, now))
        RECURSIVE IncLoop(_)
        IncLoop(n) ==
            IF n = 0 THEN <<>>
            ELSE IncLoop(n - 1) \o
                 (IF DictHas(prev_map, curr_map.keys[n])
                  THEN CurrStep(user, curr_map.keys[n], curr_map, prev_map,
                                detect_increases, now)
                  ELSE <<>>)
        RECURSIVE PrevLoop(_)
        PrevLoop(n) ==
            IF n = 0 THEN <<>>
            ELSE PrevLoop(n - 1) \o
                 PrevStep(user, prev_map.keys[n], curr_map, prev_map, now)
    IN  NewLoop(Len(curr_map.keys)) \o IncLoop(Len(curr_map.keys)) \o
        (IF detect_closures THEN PrevLoop(Len(prev_map.keys)) ELSE <<>>)
detect_changes(user, current_positions, previous_positions, detect_increases, detect_closures, now) ==
    LET prev_map == TokenMap(previous_positions)
        curr_map == TokenMap(current_positions)
        RECURSIVE CurrLoop(_)
        CurrLoop(n) ==
            IF n = 0 THEN <<>>
            ELSE CurrLoop(n - 1) \o
                 CurrStep(user, curr_map.keys[n], curr_map, prev_map,
                          detect_increases, now)
        RECURSIVE PrevLoop(_)
        PrevLoop(n) ==
            IF n = 0 THEN <<>>
            ELSE PrevLoop(n - 1) \o
                 PrevStep(user, prev_map.keys[n], curr_map, prev_map, now)
    IN  CurrLoop(Len(curr_map.keys)) \o
        (IF detect_closures THEN PrevLoop(Len(prev_map.keys)) ELSE <<>>)

----------------------------------------------------------------------------
(* config.py *)

AppConfig(suppress, on_new, on_increase, on_closed) ==
    [first_run_suppress_notifications |-> suppress,
     on_new_position |-> on_new,
     on_position_increase |-> on_increase,
     on_position_closed |-> on_closed]

----------------------------------------------------------------------------
(* agents/state_manager.py.  The state file is missing, unreadable, or     *)
(* holds the JSON of a dict from address to a list of position dicts.  A   *)
(* raw dict is a function on Addresses whose value is None for an absent   *)
(* key.  The other seven fields of a position are carried like side (the   *)
(* strings) and size (the floats).                                         *)

Addresses == {"0xA", "0xB"}

EmptyRaw == [a \in Addresses |-> None]

MissingFile == [kind |-> "missing", raw |-> EmptyRaw]
CorruptFile == [kind |-> "corrupt", raw |-> EmptyRaw]

\* file.raw of a file that is not JSON is what the damaged text once held
_load_raw_reads_corrupt(file) == file.raw
_load_raw(file) == IF file.kind = "json" THEN file.raw ELSE EmptyRaw

_save_raw(state) == [kind |-> "json", raw |-> state]

Get(d, key, default) == IF key \in DOMAIN d THEN d[key] ELSE default

_position_to_dict_without_side(p) ==
    [token_id |-> p.token_id, size |-> p.size]
_position_to_dict(p) ==
    [token_id |-> p.token_id, side |-> p.side, size |-> p.size]

_dict_to_position(d) ==
    [token_id |-> Get(d, "token_id", NoToken),
     side |-> Get(d, "side", "Unknown"),
     size |-> Get(d, "size", 0)]

get_state(file, wallet_address) ==
    LET raw == _load_raw(file)
    IN  IF raw[wallet_address] = None THEN None
        ELSE Some([i \in 1..Len(raw[wallet_address][1]) |->
                      _dict_to_position(raw[wallet_address][1][i])])

save_state_extends(file, wallet_address, positions) ==
    LET raw == _load_raw(file)
        old == IF raw[wallet_address] = None THEN <<>>
               ELSE raw[wallet_address][1]
    IN  _save_raw([raw EXCEPT ![wallet_address] =
                      Some(old \o [i \in 1..Len(positions) |->
                                      _position_to_dict(positions[i])])])
save_state(file, wallet_address, positions) ==
    LET raw == _load_raw(file)
    IN  _save_raw([raw EXCEPT ![wallet_address] =
                      Some([i \in 1..Len(positions) |->
                               _position_to_dict(positions[i])])])

is_first_run_falsy(file, wallet_address) ==
    _load_raw(file)[wallet_address] \in {None, Some(<<>>)}
is_first_run(file, wallet_address) ==
    _load_raw(file)[wallet_address] = None

----------------------------------------------------------------------------
(* agents/profile_resolver.py *)

\* The usernames a configuration may spell, for two profiles.
Usernames == {"Bob", "@Bob", "bob", "@bob", "Alice", "@Alice", "alice", "@alice"}

\* clean = username.lstrip("@").strip()
clean(username) ==
    CASE username \in {"Bob", "@Bob"} -> "Bob"
      [] username \in {"bob", "@bob"} -> "bob"
      [] username \in {"Alice", "@Alice"} -> "Alice"
      [] username \in {"alice", "@alice"} -> "alice"
      [] OTHER -> username

\* str.lower()
lower(s) ==
    CASE s = "Bob" -> "bob"
      [] s = "Alice" -> "alice"
      [] OTHER -> s

\* cache_key = clean.lower()
cache_key_case_sensitive(username) == clean(username)
cache_key(username) == lower(clean(username))

\* The strings a key of the _cache dict can be.
CacheKeys == {"alice", "bob", "Alice", "Bob"}

EmptyCache == [k \in CacheKeys |-> None]

\* What the search API holds: the address of a username's profile.
ProfileAddress(key) == IF key = "bob" THEN "0xB" ELSE "0xA"

\* What the search can come to: _extract_address finds the address of a
\* matching profile, finds none, or get_json raises.
Found(a) == [kind |-> "found", address |-> a]
NotFound == [kind |-> "not_found", address |-> ""]
SearchFails == [kind |-> "error", address |-> ""]

\* if not address: raise ValueError(...)
raise_not_found_cached(_cache, key) ==
    [raised |-> TRUE, error |-> "ValueError", address |-> "",
     cache |-> [_cache EXCEPT ![key] = Some("")], api_called |-> TRUE]
raise_not_found(_cache, key) ==
    [raised |-> TRUE, error |-> "ValueError", address |-> "",
     cache |-> _cache, api_called |-> TRUE]

\* Returns whether the call raised and which error, the address returned,
\* the cache after the call, and whether get_json was called.
resolve_username(_cache, username, api) ==
    LET key == cache_key(username)
    IN  IF _cache[key] # None
        THEN [raised |-> FALSE, error |-> "none", address |-> _cache[key][1],
              cache |-> _cache, api_called |-> FALSE]
        ELSE CASE api.kind = "error" ->
                    [raised |-> TRUE, error |-> "RuntimeError",
                     address |-> "", cache |-> _cache, api_called |-> TRUE]
               [] api.kind = "not_found" -> raise_not_found(_cache, key)
               [] OTHER ->
                    [raised |-> FALSE, error |-> "none",
                     address |-> api.address,
                     cache |-> [_cache EXCEPT ![key] = Some(api.address)],
                     api_called |-> TRUE]

\* _cache.clear()
clear_cache(_cache) == EmptyCache

----------------------------------------------------------------------------
(* agents/telegram_notifier.py *)

\* type_enabled.get(event.event_type, False), whatever the flags say
type_enabled_ignoring_flags(event_type, on_new_position, on_position_increase, on_position_closed) ==
    event_type \in EventType
type_enabled(event_type, on_new_position, on_position_increase, on_position_closed) ==
    CASE event_type = "new_position" -> on_new_position
      [] event_type = "position_increased" -> on_position_increase
      [] event_type = "position_closed" -> on_position_closed
      [] OTHER -> FALSE

\* outcome of post_json and of the Telegram API for one message
DeliveryOutcomes == {"ok", "rejected", "exception"}

\* The call's value and whether it raised.  post_json's exception is caught
\* by the except clause, a reply without a true "ok" gives bool(ok) = False.
send_event_uncaught(event, delivery) ==
    [value |-> delivery = "ok", raised |-> delivery = "exception"]
send_event(event, delivery) ==
    [value |-> delivery = "ok", raised |-> FALSE]

\* outcomes[i] is what the transport does with events[i] if it is handed to
\* it.  Returns the events handed to send_event, its value for each, the
\* count send_events returns, and whether an exception left the loop (the
\* loop has no try of its own).
send_events(evs, outcomes, on_new_position, on_position_increase, on_position_closed) ==
    LET RECURSIVE Loop(_)
        Loop(n) ==
            IF n = 0
            THEN [handed |-> <<>>, results |-> <<>>, sent |-> 0,
                  raised |-> FALSE]
            ELSE LET r == Loop(n - 1)
                     event == evs[n]
                 IN  IF r.raised THEN r
                     ELSE IF type_enabled(event.event_type, on_new_position,
                                          on_position_increase,
                                          on_position_closed)
                     THEN LET success == send_event(event, outcomes[n])
                          IN  [handed |-> Append(r.handed, event),
                               results |-> Append(r.results, success.value),
                               sent |-> IF success.value /\ ~success.raised
                                        THEN r.sent + 1 ELSE r.sent,
                               raised |-> success.raised]
                     ELSE r
    IN  Loop(Len(evs))

----------------------------------------------------------------------------
(* utils/http_client.py: get_json and post_json, the same loop around      *)
(* client.get and client.post.                                             *)

_MAX_RETRIES == 3
_BACKOFF_DELAYS == <<5, 15, 45>>
DefaultRetryAfter == 10

Min(a, b) == IF a < b THEN a ELSE b

\* delay = _BACKOFF_DELAYS[min(attempt, len(_BACKOFF_DELAYS) - 1)]
backoff_delay_first(attempt) == _BACKOFF_DELAYS[1]
backoff_delay(attempt) ==
    _BACKOFF_DELAYS[Min(attempt, Len(_BACKOFF_DELAYS) - 1) + 1]

\* retry_after = int(exc.response.headers.get("Retry-After", "10"))
retry_after_backoff(header, attempt) == backoff_delay(attempt)
retry_after(header, attempt) ==
    IF header = None THEN DefaultRetryAfter ELSE header[1]

\* What one attempt can meet.
Ok == [kind |-> "ok", status_code |-> 200, header |-> None]
Transient(kind) == [kind |-> kind, status_code |-> 0, header |-> None]
StatusError(status_code, header) ==
    [kind |-> "status", status_code |-> status_code, header |-> header]

\* the Retry-After header of a 429 response: absent, or a number of seconds
RetryAfterHeaders == {None, Some(1), Some(30)}

\* the call in progress: the loop variable, the responses met so far, the
\* delays slept so far, and how the call ended
HttpCall(method) ==
    [method |-> method, attempt |-> 0, met |-> <<>>, slept |-> <<>>,
     result |-> "pending"]
IdleHttp == [HttpCall("GET") EXCEPT !.result = "idle"]

\* for attempt in range(_MAX_RETRIES): one more pass of the loop body
InLoop == http.result = "pending" /\ http.attempt < _MAX_RETRIES

\* return response.json()
HttpReturns ==
    /\ InLoop
    /\ http' = [http EXCEPT !.met = Append(@, Ok), !.result = "returned"]
    /\ UNCHANGED <<run, deliveries, events2, rcall, api_json, loaded>>

\* except (httpx.TimeoutException, httpx.NetworkError)
HttpTransient ==
    /\ InLoop
    /\ \E kind \in {"timeout", "network"} :
          http' = [http EXCEPT !.met = Append(@, Transient(kind)),
                               !.slept = Append(@, backoff_delay(http.attempt)),
                               !.attempt = @ + 1]
    /\ UNCHANGED <<run, deliveries, events2, rcall, api_json, loaded>>

\* except httpx.HTTPStatusError with status_code == 429
HttpRateLimited ==
    /\ InLoop
    /\ \E header \in RetryAfterHeaders :
          http' = [http EXCEPT !.met = Append(@, StatusError(429, header)),
                               !.slept = Append(@, retry_after(header,
                                                               http.attempt)),
                               !.attempt = @ + 1]
    /\ UNCHANGED <<run, deliveries, events2, rcall, api_json, loaded>>

\* except httpx.HTTPStatusError with another status: raise
HttpRaisesStatus ==
    /\ InLoop
    /\ \E status_code \in {404, 500} :
          http' = [http EXCEPT !.met = Append(@, StatusError(status_code, None)),
                               !.result = "HTTPStatusError"]
    /\ UNCHANGED <<run, deliveries, events2, rcall, api_json, loaded>>

\* after the loop: raise RuntimeError(...) from last_exc
HttpExhausted ==
    /\ http.result = "pending"
    /\ http.attempt >= _MAX_RETRIES
    /\ http' = [http EXCEPT !.result = "RuntimeError"]
    /\ UNCHANGED <<run, deliveries, events2, rcall, api_json, loaded>>

----------------------------------------------------------------------------
(* agents/position_poller.py.  An entry of the response is a dict or is    *)
(* not one (a string, a number, null).  Of a dict the keys "asset",        *)
(* "size", "outcome", "side" and "isYes" are modelled, None when absent;   *)
(* the other keys of token_id and size ("tokenId", "shares", ...) behave   *)
(* as these, and the other fields are read as the strings are.             *)

\* a value of "size": a number, or a string float() does not accept
Number(n) == [parses |-> TRUE, value |-> n]
NotANumber == [parses |-> FALSE, value |-> 0]

NotADict ==
    [is_dict |-> FALSE, asset |-> None, size |-> None, outcome |-> None,
     side |-> None, isYes |-> None]

Entry(asset, size, outcome_, side, isYes) ==
    [is_dict |-> TRUE, asset |-> asset, size |-> size, outcome |-> outcome_,
     side |-> side, isYes |-> isYes]

\* str.capitalize()
capitalize(s) ==
    CASE s \in {"yes", "YES"} -> "Yes"
      [] s \in {"no", "NO"} -> "No"
      [] s \in {"up", "UP"} -> "Up"
      [] OTHER -> s

\* item.get("outcome") or item.get("side") or ""
OutcomeOf(item) ==
    IF item.outcome # None /\ item.outcome[1] # "" THEN item.outcome[1]
    ELSE IF item.side # None /\ item.side[1] # "" THEN item.side[1]
    ELSE ""

_parse_side(item) ==
    LET outcome_ == OutcomeOf(item)
    IN  IF outcome_ # "" THEN capitalize(outcome_)
        ELSE IF item.isYes = Some(TRUE) THEN "Yes"
        ELSE IF item.isYes = Some(FALSE) THEN "No"
        ELSE "Unknown"

\* Whether the call raised (item.get on a value that is no dict, float() of
\* a string that is no number) and the Position it returned.
_parse_position(item) ==
    LET \* item.get("size") or item.get("shares") or 0
        size == IF item.size # None /\ item.size[1] # Number(0)
                THEN item.size[1] ELSE Number(0)
        \* str(item.get("asset") or ... or "")
        token_id == IF item.asset # None THEN item.asset[1] ELSE NoToken
    IN  IF ~item.is_dict \/ ~size.parses
        THEN [raised |-> TRUE,
              position |-> [token_id |-> NoToken, side |-> "Unknown",
                            size |-> 0]]
        ELSE [raised |-> FALSE,
              position |-> [token_id |-> token_id, side |-> _parse_side(item),
                            size |-> size.value]]

\* What get_json returned: a list, or a dict with or without the keys
\* "positions" and "data".
ListResponse(items) ==
    [kind |-> "list", items |-> items, positions |-> None, data |-> None]
DictResponse(positions, data) ==
    [kind |-> "dict", items |-> <<>>, positions |-> positions, data |-> data]

\* raw.get("positions") or raw.get("data") or []
Unwrap(raw) ==
    IF raw.kind # "dict" THEN raw.items
    ELSE IF raw.positions # None /\ raw.positions[1] # <<>>
         THEN raw.positions[1]
    ELSE IF raw.data # None /\ raw.data[1] # <<>> THEN raw.data[1]
    ELSE <<>>

\* try: positions.append(_parse_position(item)) / except Exception: log
AfterParseAborts(acc, r) ==
    IF r.raised THEN [raised |-> TRUE, positions |-> <<>>]
    ELSE [acc EXCEPT !.positions = Append(@, r.position)]
AfterParse(acc, r) ==
    IF r.raised THEN acc
    ELSE [acc EXCEPT !.positions = Append(@, r.position)]

\* Whether the call raised and the list it returned.
fetch_positions(raw) ==
    LET items == Unwrap(raw)
        RECURSIVE Loop(_)
        Loop(n) ==
            IF n = 0 THEN [raised |-> FALSE, positions |-> <<>>]
            ELSE LET acc == Loop(n - 1)
                 IN  IF acc.raised THEN acc
                     ELSE AfterParse(acc, _parse_position(items[n]))
    IN  Loop(Len(items))

----------------------------------------------------------------------------
(* main.py: run_cycle, one monitored user after the other, cycle after     *)
(* cycle.                                                                   *)

MonitoredUserConfig(username, wallet_address) ==
    [username |-> username, wallet_address |-> wallet_address]

\* config.json: the first user has a configured wallet address, the second
\* is resolved by username.
Monitored ==
    <<MonitoredUserConfig("Alice", "0xA"), MonitoredUserConfig("@Bob", "")>>

\* What the positions API can answer for an address: any list of at most
\* two of the first account's positions, at most one position for the
\* second account.
AccountPositions(a) ==
    IF a = "0xA"
    THEN {Position(NoToken, 100), Position(1, 100), Position(1, 151),
          Position(2, 100)}
    ELSE {Position(2, 100)}

ApiPositions(a) ==
    IF a = "0xA"
    THEN UNION {[1..n -> AccountPositions(a)] : n \in SnapshotLengths}
    ELSE {<<>>} \cup {<<p>> : p \in AccountPositions(a)}

user == MonitoredUser(Monitored[idx].username, address)

\* The search API's answers for a monitored username.
SearchAnswers(username) ==
    {Found(ProfileAddress(cache_key(username))), NotFound, SearchFails}

\* if first_run and config.first_run_suppress_notifications
ShouldBaselineWhenNotSuppressed(is_first, config) ==
    is_first /\ ~config.first_run_suppress_notifications
ShouldBaselineOnEveryFirstRun(is_first, config) == is_first
ShouldBaseline(is_first, config) ==
    is_first /\ config.first_run_suppress_notifications

\* get_state(address) or []
OrEmpty(state) == IF state = None THEN <<>> ELSE state[1]

\* "if events:" sends and falls through to the save; "else" logs and does
AfterDetect(evs) == IF evs # <<>> THEN "notify" ELSE "persist"

\* except Exception as exc: the error is logged and the for loop goes on
OnExceptionPropagates == "crashed"
OnException == "end"

\* the except clause leaves the state file alone
on_exception_resets_state(file, wallet_address) ==
    IF wallet_address \in Addresses
    THEN save_state(file, wallet_address, <<>>)
    ELSE file
on_exception(file, wallet_address) == file

\* after send_events returns, whatever the count
AfterNotifyOnlyIfAllSent(handed, count) ==
    IF count = Len(handed) THEN "persist" ELSE "end"
AfterNotify(handed, count) == "persist"

\* No call of fetch_positions yet.
NoResponse == [kind |-> "none", items |-> <<>>, positions |-> None, data |-> None]

\* No call of resolve_username yet; known is the history of the addresses
\* successful calls returned, by profile, since the cache was last cleared.
Profiles == {"alice", "bob"}
IdleCall ==
    [step |-> "none", username |-> "", api |-> NotFound, raised |-> FALSE,
     error |-> "none", address |-> "", api_called |-> FALSE,
     hit |-> FALSE, known |-> [p \in Profiles |-> None]]

SoloIdle ==
    /\ deliveries = <<>>
    /\ events2 = <<>>
    /\ http = IdleHttp
    /\ rcall = IdleCall
    /\ api_json = NoResponse
    /\ loaded = None

Init ==
    /\ pc = "resolve"
    /\ idx = 1
    /\ address = ""
    /\ current = <<>>
    /\ previous = <<>>
    /\ first_run = FALSE
    /\ events = <<>>
    /\ sends = <<>>
    /\ delivered = <<>>
    /\ sent = 0
    /\ outcome = "none"
    /\ state_file \in {MissingFile, CorruptFile}
    /\ cache = EmptyCache
    /\ cfg \in {AppConfig(s, n, i, c) :
                   s \in BOOLEAN, n \in BOOLEAN, i \in BOOLEAN, c \in BOOLEAN}
    /\ clock = 0
    /\ fetched = FALSE
    /\ saved = {}
    /\ SoloIdle

\* step 1: the configured address
ResolveConfigured ==
    /\ pc = "resolve"
    /\ Monitored[idx].wallet_address # ""
    /\ address' = Monitored[idx].wallet_address
    /\ pc' = "fetch"
    /\ UNCHANGED <<idx, current, previous, first_run, events, sends,
                   delivered, sent, outcome, state_file, cache, cfg, clock,
                   fetched, saved>>
    /\ UNCHANGED solo

\* step 1: profile_resolver.resolve_username; an exception ends the pipeline
ResolveUsername ==
    /\ pc = "resolve"
    /\ Monitored[idx].wallet_address = ""
    /\ \E api \in SearchAnswers(Monitored[idx].username) :
          LET r == resolve_username(cache, Monitored[idx].username, api)
          IN  /\ cache' = r.cache
              /\ IF r.raised
                 THEN /\ pc' = OnException
                      /\ outcome' = "failed"
                      /\ UNCHANGED address
                 ELSE /\ pc' = "fetch"
                      /\ address' = r.address
                      /\ UNCHANGED outcome
              /\ state_file' = IF r.raised
                               THEN on_exception(state_file, address)
                               ELSE state_file
    /\ UNCHANGED <<idx, current, previous, first_run, events, sends,
                   delivered, sent, cfg, clock, fetched, saved>>
    /\ UNCHANGED solo

\* step 2: position_poller.fetch_positions returns a list
FetchOk ==
    /\ pc = "fetch"
    /\ \E ps \in ApiPositions(address) : current' = ps
    /\ fetched' = TRUE
    /\ pc' = "load"
    /\ UNCHANGED <<idx, address, previous, first_run, events, sends,
                   delivered, sent, outcome, state_file, cache, cfg, clock,
                   saved>>
    /\ UNCHANGED solo

\* step 2: get_json raises; the exception ends the pipeline
FetchFails ==
    /\ pc = "fetch"
    /\ pc' = OnException
    /\ outcome' = "failed"
    /\ state_file' = on_exception(state_file, address)
    /\ UNCHANGED <<idx, address, current, previous, first_run, events,
                   sends, delivered, sent, cache, cfg, clock, fetched, saved>>
    /\ UNCHANGED solo

\* step 3: load the previous state; on a suppressed first run save the
\* baseline and continue with the next user
LoadState ==
    /\ pc = "load"
    /\ first_run' = is_first_run(state_file, address)
    /\ previous' = OrEmpty(get_state(state_file, address))
    /\ IF ShouldBaseline(first_run', cfg)
       THEN /\ state_file' = save_state(state_file, address, current)
            /\ saved' = saved \cup {address}
            /\ pc' = "end"
            /\ outcome' = "baseline"
       ELSE /\ pc' = "detect"
            /\ UNCHANGED <<state_file, saved, outcome>>
    /\ UNCHANGED <<idx, address, current, events, sends, delivered, sent,
                   cache, cfg, clock, fetched>>
    /\ UNCHANGED solo

\* step 4: change_detector.detect_changes
Detect ==
    /\ pc = "detect"
    /\ events' = detect_changes(user, current, previous,
                                cfg.on_position_increase,
                                cfg.on_position_closed, clock)
    /\ pc' = AfterDetect(events')
    /\ UNCHANGED <<idx, address, current, previous, first_run, sends,
                   delivered, sent, outcome, state_file, cache, cfg, clock,
                   fetched, saved>>
    /\ UNCHANGED solo

\* step 5: telegram_notifier.send_events
Notify ==
    /\ pc = "notify"
    /\ \E outcomes \in [1..Len(events) -> DeliveryOutcomes] :
          LET r == send_events(events, outcomes, cfg.on_new_position,
                               cfg.on_position_increase,
                               cfg.on_position_closed)
          IN  /\ sends' = r.handed
              /\ delivered' = r.results
              /\ IF r.raised
                 THEN /\ pc' = OnException
                      /\ outcome' = "failed"
                      /\ state_file' = on_exception(state_file, address)
                      /\ UNCHANGED sent
                 ELSE /\ sent' = r.sent
                      /\ pc' = AfterNotify(r.handed, r.sent)
                      /\ UNCHANGED <<outcome, state_file>>
    /\ UNCHANGED <<idx, address, current, previous, first_run, events,
                   cache, cfg, clock, fetched, saved>>
    /\ UNCHANGED solo

\* step 6: state_manager.save_state
Persist ==
    /\ pc = "persist"
    /\ state_file' = save_state(state_file, address, current)
    /\ saved' = saved \cup {address}
    /\ pc' = "end"
    /\ outcome' = "persisted"
    /\ UNCHANGED <<idx, address, current, previous, first_run, events,
                   sends, delivered, sent, cache, cfg, clock, fetched>>
    /\ UNCHANGED solo

\* the for loop takes the next user; after the last one run_cycle returns
\* and main calls it again after the polling interval
\* for user in config.monitored_users: the body has ended for this user
BodyEndedOrNotifying == pc \in {"end", "notify"}
BodyEnded == pc = "end"

NextUser ==
    /\ BodyEnded
    /\ idx' = IF idx < Len(Monitored) THEN idx + 1 ELSE 1
    /\ pc' = "resolve"
    /\ address' = ""
    /\ current' = <<>>
    /\ previous' = <<>>
    /\ first_run' = FALSE
    /\ events' = <<>>
    /\ sends' = <<>>
    /\ delivered' = <<>>
    /\ sent' = 0
    /\ outcome' = "none"
    /\ fetched' = FALSE
    /\ UNCHANGED <<state_file, cache, cfg, clock, saved>>
    /\ UNCHANGED solo

Next ==
    \/ ResolveConfigured
    \/ ResolveUsername
    \/ FetchOk
    \/ FetchFails
    \/ LoadState
    \/ Detect
    \/ Notify
    \/ Persist
    \/ NextUser

Spec == Init /\ [][Next]_vars

\* An exception raised by the state load, the detection, the notification
\* or the save of one user's pipeline, before the step has any effect.
StepRaises ==
    /\ pc \in {"load", "detect", "notify", "persist"}
    /\ pc' = OnException
    /\ outcome' = "failed"
    /\ state_file' = on_exception(state_file, address)
    /\ UNCHANGED <<idx, address, current, previous, first_run, events,
                   sends, delivered, sent, cache, cfg, clock, fetched, saved>>
    /\ UNCHANGED solo

FNext ==
    \/ ResolveConfigured
    \/ ResolveUsername
    \/ FetchOk
    \/ FetchFails
    \/ LoadState
    \/ Detect
    \/ Notify
    \/ Persist
    \/ StepRaises
    \/ NextUser

\* run_cycle with an exception possible in every step
SpecFaults == Init /\ [][FNext]_vars

\* Between two cycles the state file is damaged: its text no longer parses.
FileCorrupted ==
    /\ pc = "resolve"
    /\ idx = 1
    /\ state_file.kind = "json"
    /\ state_file' = [kind |-> "corrupt", raw |-> state_file.raw]
    /\ UNCHANGED <<pc, idx, address, current, previous, first_run, events,
                   sends, delivered, sent, outcome, cache, cfg, clock,
                   fetched, saved>>
    /\ UNCHANGED solo

CNext ==
    \/ ResolveConfigured
    \/ ResolveUsername
    \/ FetchOk
    \/ FetchFails
    \/ LoadState
    \/ Detect
    \/ Notify
    \/ Persist
    \/ NextUser
    \/ FileCorrupted

\* run_cycle over a state file that can be damaged between cycles
SpecCorrupt == Init /\ [][CNext]_vars

----------------------------------------------------------------------------
(* The detector on its own: every pair of snapshots of at most two         *)
(* positions over TokenIds x Sizes, every setting of the two options.      *)

Positions == {Position(t, s) : t \in TokenIds, s \in Sizes}
PosLists == UNION {[1..n -> Positions] : n \in SnapshotLengths}

TestUser == MonitoredUser("test-user", "0x1234")

DInit ==
    /\ pc = "d_call"
    /\ current \in PosLists
    /\ previous \in PosLists
    /\ cfg \in {AppConfig(TRUE, TRUE, i, c) : i \in BOOLEAN, c \in BOOLEAN}
    /\ events = <<>>
    /\ idx = 1
    /\ address = TestUser.wallet_address
    /\ first_run = FALSE
    /\ sends = <<>>
    /\ delivered = <<>>
    /\ sent = 0
    /\ outcome = "none"
    /\ state_file = MissingFile
    /\ cache = EmptyCache
    /\ clock = 0
    /\ fetched = FALSE
    /\ saved = {}
    /\ SoloIdle

DetectCall ==
    /\ pc = "d_call"
    /\ events' = detect_changes(TestUser, current, previous,
                                cfg.on_position_increase,
                                cfg.on_position_closed, clock)
    /\ pc' = "d_done"
    /\ UNCHANGED <<idx, address, current, previous, first_run, sends,
                   delivered, sent, outcome, state_file, cache, cfg, clock,
                   fetched, saved>>
    /\ UNCHANGED solo

DNext == DetectCall

SpecDetect == DInit /\ [][DNext]_vars

----------------------------------------------------------------------------
(* The detector called twice on the same arguments, the clock read by each *)
(* call; between the calls the clock advances or, being coarse, does not.  *)

TwiceLists ==
    UNION {[1..n -> {Position(t, z) : t \in TokenIds, z \in {100, 151}}] :
              n \in SnapshotLengths}

RunIdle ==
    /\ idx = 1
    /\ address = TestUser.wallet_address
    /\ current = <<>>
    /\ previous = <<>>
    /\ first_run = FALSE
    /\ events = <<>>
    /\ sends = <<>>
    /\ delivered = <<>>
    /\ sent = 0
    /\ outcome = "none"
    /\ state_file = MissingFile
    /\ cache = EmptyCache
    /\ cfg = AppConfig(TRUE, TRUE, TRUE, FALSE)
    /\ clock = 0
    /\ fetched = FALSE
    /\ saved = {}

TInit ==
    /\ pc = "t_call"
    /\ current \in TwiceLists
    /\ previous \in TwiceLists
    /\ cfg \in {AppConfig(TRUE, TRUE, i, c) : i \in BOOLEAN, c \in BOOLEAN}
    /\ events = <<>>
    /\ idx = 1
    /\ address = TestUser.wallet_address
    /\ first_run = FALSE
    /\ sends = <<>>
    /\ delivered = <<>>
    /\ sent = 0
    /\ outcome = "none"
    /\ state_file = MissingFile
    /\ cache = EmptyCache
    /\ clock = 0
    /\ fetched = FALSE
    /\ saved = {}
    /\ SoloIdle

FirstCall ==
    /\ pc = "t_call"
    /\ events' = detect_changes(TestUser, current, previous,
                                cfg.on_position_increase,
                                cfg.on_position_closed, clock)
    /\ pc' = "t_between"
    /\ UNCHANGED <<idx, address, current, previous, first_run, sends,
                   delivered, sent, outcome, state_file, cache, cfg, clock,
                   fetched, saved>>
    /\ UNCHANGED solo

TimePasses ==
    /\ pc = "t_between"
    /\ clock' = clock + 1
    /\ pc' = "t_later"
    /\ UNCHANGED <<idx, address, current, previous, first_run, events,
                   sends, delivered, sent, outcome, state_file, cache, cfg,
                   fetched, saved>>
    /\ UNCHANGED solo

SecondCall ==
    /\ pc \in {"t_between", "t_later"}
    /\ events2' = detect_changes(TestUser, current, previous,
                                 cfg.on_position_increase,
                                 cfg.on_position_closed, clock)
    /\ pc' = "t_done"
    /\ UNCHANGED <<idx, address, current, previous, first_run, events,
                   sends, delivered, sent, outcome, state_file, cache, cfg,
                   clock, fetched, saved, deliveries, http, rcall, api_json,
                   loaded>>

TNext ==
    \/ FirstCall
    \/ TimePasses
    \/ SecondCall

SpecDetectTwice == TInit /\ [][TNext]_vars

----------------------------------------------------------------------------
(* send_events on its own: every list of at most three events, every       *)
(* outcome of the transport for each, every setting of the three flags.    *)

NotifyLengths == {0, 1, 2, 3}

NotifyEvents ==
    {ChangeEvent(type, TestUser, position,
                 IF type = "new_position" THEN None ELSE Some(100), 0) :
        type \in EventType, position \in {Position(1, 100), Position(2, 151)}}

NInit ==
    /\ pc = "n_call"
    /\ events \in UNION {[1..n -> NotifyEvents] : n \in NotifyLengths}
    /\ deliveries \in [1..Len(events) -> DeliveryOutcomes]
    /\ cfg \in {AppConfig(TRUE, n, i, c) :
                   n \in BOOLEAN, i \in BOOLEAN, c \in BOOLEAN}
    /\ idx = 1
    /\ address = TestUser.wallet_address
    /\ current = <<>>
    /\ previous = <<>>
    /\ first_run = FALSE
    /\ sends = <<>>
    /\ delivered = <<>>
    /\ sent = 0
    /\ outcome = "none"
    /\ state_file = MissingFile
    /\ cache = EmptyCache
    /\ clock = 0
    /\ fetched = FALSE
    /\ saved = {}
    /\ events2 = <<>>
    /\ http = IdleHttp
    /\ rcall = IdleCall
    /\ api_json = NoResponse
    /\ loaded = None

SendCall ==
    /\ pc = "n_call"
    /\ LET r == send_events(events, deliveries, cfg.on_new_position,
                            cfg.on_position_increase, cfg.on_position_closed)
       IN  /\ sends' = r.handed
           /\ delivered' = r.results
           /\ sent' = r.sent
           /\ outcome' = IF r.raised THEN "raised" ELSE "returned"
    /\ pc' = "n_done"
    /\ UNCHANGED <<idx, address, current, previous, first_run, events,
                   state_file, cache, cfg, clock, fetched, saved>>
    /\ UNCHANGED solo

NNext == SendCall

SpecNotify == NInit /\ [][NNext]_vars

----------------------------------------------------------------------------
(* get_json / post_json on its own: one call, every sequence of responses. *)

HInit ==
    /\ pc = "h_call"
    /\ RunIdle
    /\ http \in {HttpCall("GET"), HttpCall("POST")}
    /\ deliveries = <<>>
    /\ events2 = <<>>
    /\ rcall = IdleCall
    /\ api_json = NoResponse
    /\ loaded = None

HNext ==
    \/ HttpReturns
    \/ HttpTransient
    \/ HttpRateLimited
    \/ HttpRaisesStatus
    \/ HttpExhausted

SpecHttp == HInit /\ [][HNext]_vars

----------------------------------------------------------------------------
(* resolve_username on its own: call after call with any spelling of the   *)
(* two usernames and any answer of the search API, and clear_cache.        *)

\* the profile a username names, ignoring case and a leading '@'
Profile(username) ==
    IF username \in {"Bob", "@Bob", "bob", "@bob"} THEN "bob" ELSE "alice"

RInit ==
    /\ pc = "r_call"
    /\ RunIdle
    /\ rcall = IdleCall
    /\ api_json = NoResponse
    /\ loaded = None
    /\ deliveries = <<>>
    /\ events2 = <<>>
    /\ http = IdleHttp

ResolveCall ==
    /\ pc = "r_call"
    /\ \E username \in Usernames :
       \E api \in {Found(a) : a \in Addresses} \cup {NotFound, SearchFails} :
          LET r == resolve_username(cache, username, api)
              p == Profile(username)
          IN  /\ cache' = r.cache
              /\ rcall' = [step |-> "resolve", username |-> username,
                           api |-> api, raised |-> r.raised,
                           error |-> r.error, address |-> r.address,
                           api_called |-> r.api_called,
                           hit |-> rcall.known[p] # None,
                           known |-> IF ~r.raised /\ rcall.known[p] = None
                                     THEN [rcall.known EXCEPT
                                              ![p] = Some(r.address)]
                                     ELSE rcall.known]
    /\ UNCHANGED <<pc, idx, address, current, previous, first_run, events,
                   sends, delivered, sent, outcome, state_file, cfg, clock,
                   fetched, saved, deliveries, events2, http, api_json,
                   loaded>>

ClearCache ==
    /\ pc = "r_call"
    /\ cache' = clear_cache(cache)
    /\ rcall' = [IdleCall EXCEPT !.step = "clear"]
    /\ UNCHANGED <<pc, idx, address, current, previous, first_run, events,
                   sends, delivered, sent, outcome, state_file, cfg, clock,
                   fetched, saved, deliveries, events2, http, api_json,
                   loaded>>

RNext ==
    \/ ResolveCall
    \/ ClearCache

SpecResolve == RInit /\ [][RNext]_vars

----------------------------------------------------------------------------
(* fetch_positions on its own: every response of at most two entries.      *)

RawEntries ==
    {NotADict} \cup
    {Entry(asset, size, outcome_, side, isYes) :
        asset \in {None, Some(1)},
        size \in {None, Some(Number(100)), Some(NotANumber)},
        outcome_ \in {None, Some("no"), Some("Up")},
        side \in {None, Some("No")},
        isYes \in {None, Some(TRUE), Some(FALSE)}}

RawLists(n) == [1..n -> RawEntries]

ResponseShapes == {"list", "positions", "data", "neither"}

\* the response that holds the entries bare, under "positions", under
\* "data" beside an empty "positions", or a dict with neither key
Response(shape, items) ==
    CASE shape = "list" -> ListResponse(items)
      [] shape = "positions" -> DictResponse(Some(items), None)
      [] shape = "data" -> DictResponse(Some(<<>>), Some(items))
      [] OTHER -> DictResponse(None, None)

PInit ==
    /\ pc = "p_call"
    /\ RunIdle
    /\ \E n \in SnapshotLengths, shape \in ResponseShapes :
          \E items \in RawLists(n) : api_json = Response(shape, items)
    /\ deliveries = <<>>
    /\ events2 = <<>>
    /\ http = IdleHttp
    /\ rcall = IdleCall
    /\ loaded = None

FetchCall ==
    /\ pc = "p_call"
    /\ LET r == fetch_positions(api_json)
       IN  /\ current' = r.positions
           /\ outcome' = IF r.raised THEN "raised" ELSE "returned"
    /\ pc' = "p_done"
    /\ UNCHANGED <<idx, address, previous, first_run, events, sends,
                   delivered, sent, state_file, cache, cfg, clock, fetched,
                   saved>>
    /\ UNCHANGED solo

PNext == FetchCall

SpecFetch == PInit /\ [][PNext]_vars

----------------------------------------------------------------------------
(* The store on its own: save_state and get_state over a state file that   *)
(* is missing, corrupt, or holds earlier snapshots.                        *)

StorePositions ==
    {[token_id |-> t, side |-> sd, size |-> sz] :
        t \in {NoToken, 1}, sd \in {"Yes", "No"}, sz \in {100, 150}}

StoreLists == UNION {[1..n -> StorePositions] : n \in SnapshotLengths}

\* what earlier runs can have left in the file
EarlierLists ==
    {<<>>,
     <<[token_id |-> 1, side |-> "Yes", size |-> 100]>>,
     <<[token_id |-> NoToken, side |-> "No", size |-> 150],
       [token_id |-> 1, side |-> "No", size |-> 100]>>}

EarlierEntries ==
    {None} \cup
    {Some([i \in 1..Len(l) |-> _position_to_dict(l[i])]) : l \in EarlierLists}

StoreFiles ==
    {MissingFile} \cup
    {[kind |-> k, raw |-> r] :
        k \in {"json", "corrupt"}, r \in [Addresses -> EarlierEntries]}

SInit ==
    /\ pc = "s_idle"
    /\ idx = 1
    /\ address = ""
    /\ current = <<>>
    /\ previous = <<>>
    /\ first_run = FALSE
    /\ events = <<>>
    /\ sends = <<>>
    /\ delivered = <<>>
    /\ sent = 0
    /\ outcome = "none"
    /\ state_file \in StoreFiles
    /\ cache = EmptyCache
    /\ cfg = AppConfig(TRUE, TRUE, TRUE, FALSE)
    /\ clock = 0
    /\ fetched = FALSE
    /\ saved = {}
    /\ SoloIdle

\* save_state(wallet_address, positions)
SaveCall ==
    /\ pc \in {"s_idle", "s_got"}
    /\ \E wallet_address \in Addresses, positions \in StoreLists :
          /\ state_file' = save_state(state_file, wallet_address, positions)
          /\ address' = wallet_address
          /\ current' = positions
    /\ pc' = "s_saved"
    /\ loaded' = None
    /\ UNCHANGED <<idx, previous, first_run, events, sends, delivered, sent,
                   outcome, cache, cfg, clock, fetched, saved>>
    /\ UNCHANGED <<deliveries, events2, http, rcall, api_json>>

\* save_state for another address, between the save and the read
SaveOther ==
    /\ pc = "s_saved"
    /\ \E wallet_address \in Addresses \ {address}, positions \in EarlierLists :
          state_file' = save_state(state_file, wallet_address, positions)
    /\ UNCHANGED <<pc, idx, address, current, previous, first_run, events,
                   sends, delivered, sent, outcome, cache, cfg, clock,
                   fetched, saved>>
    /\ UNCHANGED solo

\* get_state(wallet_address) for the address of the save
GetCall ==
    /\ pc = "s_saved"
    /\ loaded' = get_state(state_file, address)
    /\ pc' = "s_got"
    /\ UNCHANGED <<idx, address, current, previous, first_run, events, sends,
                   delivered, sent, outcome, state_file, cache, cfg, clock,
                   fetched, saved>>
    /\ UNCHANGED <<deliveries, events2, http, rcall, api_json>>

SNext ==
    \/ SaveCall
    \/ SaveOther
    \/ GetCall

SpecStore == SInit /\ [][SNext]_vars

----------------------------------------------------------------------------
(* Vocabulary of the detector's properties *)

TokensOf(positions) ==
    {positions[i].token_id : i \in 1..Len(positions)} \ {NoToken}

DistinctTokens(positions) ==
    /\ \A i \in 1..Len(positions) : positions[i].token_id # NoToken
    /\ \A i, j \in 1..Len(positions) :
          positions[i].token_id = positions[j].token_id => i = j

Occurrences(positions, t) ==
    {i \in 1..Len(positions) : positions[i].token_id = t}

FirstIndex(positions, t) ==
    CHOOSE i \in Occurrences(positions, t) :
        \A j \in Occurrences(positions, t) : i <= j

LastWith(positions, t) ==
    positions[CHOOSE i \in Occurrences(positions, t) :
                  \A j \in Occurrences(positions, t) : j <= i]

EventIdx(type) == {i \in 1..Len(events) : events[i].event_type = type}

EventIdxFor(type, t) ==
    {i \in EventIdx(type) : events[i].position.token_id = t}

AnyEventFor(t) ==
    \E i \in 1..Len(events) : events[i].position.token_id = t

DetectDone == pc = "d_done"

\* C1: for snapshots with distinct non-empty token_ids, every token_id in
\* current but not in previous gets exactly one new_position event, which
\* carries the current position and previous_size = None, and no
\* new_position event is about a token_id that previous holds.
C1_NewPositionPerCurrentOnlyToken ==
    (DetectDone /\ DistinctTokens(current) /\ DistinctTokens(previous)) =>
        /\ \A t \in TokensOf(current) \ TokensOf(previous) :
              /\ Cardinality(EventIdxFor("new_position", t)) = 1
              /\ \A i \in EventIdxFor("new_position", t) :
                    /\ events[i].position = LastWith(current, t)
                    /\ events[i].previous_size = None
        /\ \A i \in EventIdx("new_position") :
              events[i].position.token_id \notin TokensOf(previous)

C1_Witness ==
    /\ DetectDone /\ DistinctTokens(current) /\ DistinctTokens(previous)
    /\ TokensOf(current) \ TokensOf(previous) # {}
    /\ TokensOf(current) \cap TokensOf(previous) # {}
    /\ EventIdx("new_position") # {}

C3_ClosedPerPreviousOnlyToken ==
    DetectDone =>
        IF cfg.on_position_closed
        THEN \A t \in TokensOf(previous) \ TokensOf(current) :
                /\ Cardinality(EventIdxFor("position_closed", t)) = 1
                /\ \A i \in EventIdxFor("position_closed", t) :
                      events[i].position = LastWith(previous, t)
        ELSE EventIdx("position_closed") = {}

C3_Witness ==
    /\ DetectDone /\ cfg.on_position_closed
    /\ Cardinality(TokensOf(previous) \ TokensOf(current)) = 2
    /\ Cardinality(EventIdx("position_closed")) = 2

\* C4 as claimed: in the returned list every new_position event is before
\* every position_increased event, and every position_increased event is
\* before every position_closed event.
C4_NewThenIncreasedThenClosed ==
    DetectDone =>
        \A i, j \in 1..Len(events) :
            i < j =>
                /\ ~(events[i].event_type = "position_increased"
                     /\ events[j].event_type = "new_position")
                /\ ~(events[i].event_type = "position_closed"
                     /\ events[j].event_type # "position_closed")

\* C4 amended: every position_closed event is after every new_position and
\* every position_increased event; the new_position and position_increased
\* events are in the order in which their token_ids first occur in current,
\* whatever their types.
C4_CurrentOrderThenClosed ==
    DetectDone =>
        \A i, j \in 1..Len(events) :
            i < j =>
                /\ events[i].event_type = "position_closed"
                      => events[j].event_type = "position_closed"
                /\ events[j].event_type # "position_closed"
                      => FirstIndex(current, events[i].position.token_id)
                         < FirstIndex(current, events[j].position.token_id)

C4_Witness ==
    /\ DetectDone
    /\ Len(events) = 3
    /\ events[1].event_type = "position_increased"
    /\ events[2].event_type = "new_position"
    /\ events[3].event_type = "position_closed"

\* C5: a token_id held by both snapshots whose current size is not above
\* its previous size gets no event, whatever the options; comparing a
\* snapshot with itself gives the empty list.
C5_NoEventForDecreaseOrUnchanged ==
    DetectDone =>
        /\ \A t \in TokensOf(current) \cap TokensOf(previous) :
              LastWith(current, t).size <= LastWith(previous, t).size
                  => ~AnyEventFor(t)
        /\ current = previous => events = <<>>

C5_Witness ==
    /\ DetectDone /\ cfg.on_position_increase /\ cfg.on_position_closed
    /\ \E t \in TokensOf(current) \cap TokensOf(previous) :
          LastWith(current, t).size < LastWith(previous, t).size
    /\ events # <<>>

\* C6: no event carries a position whose token_id is empty, wherever such
\* positions occur in the inputs, and for every input the detector returns
\* a list of events instead of failing.
C6_NoEventForEmptyTokenId ==
    /\ pc = "d_call" =>
          LET r == detect_changes(TestUser, current, previous,
                                  cfg.on_position_increase,
                                  cfg.on_position_closed, clock)
          IN  \A i \in 1..Len(r) : r[i].event_type \in EventType
    /\ DetectDone =>
          \A i \in 1..Len(events) : events[i].position.token_id # NoToken

C6_Witness ==
    /\ DetectDone /\ cfg.on_position_increase /\ cfg.on_position_closed
    /\ \E i \in 1..Len(current) : current[i].token_id = NoToken
    /\ \E i \in 1..Len(previous) : previous[i].token_id = NoToken
    /\ Len(events) = 2

----------------------------------------------------------------------------
(* Vocabulary of the orchestrator's properties *)

HasEntry(a) == state_file.kind = "json" /\ state_file.raw[a] # None

Suppress == cfg.first_run_suppress_notifications

AfterDetection == pc \in {"notify", "persist", "end"} /\ fetched

\* events is one new_position event per distinct non-empty token_id of
\* current, carrying the last position fetched with that token_id.
AllNewPositions ==
    /\ Len(events) = Cardinality(TokensOf(current))
    /\ \A t \in TokensOf(current) :
          /\ Cardinality(EventIdxFor("new_position", t)) = 1
          /\ \A i \in EventIdxFor("new_position", t) :
                /\ events[i].position = LastWith(current, t)
                /\ events[i].previous_size = None

\* C7: when the store has no entry for the user's address and first-run
\* suppression is on, the step after the fetch saves the fetched positions
\* as the snapshot and ends the user's pipeline, and nothing has been
\* handed to the notifier for that user.
C7_FirstRunBaselineNoNotifications ==
    /\ [][(pc = "load" /\ ~HasEntry(address) /\ Suppress) =>
            /\ pc' = "end"
            /\ outcome' = "baseline"
            /\ sends' = <<>>
            /\ get_state(state_file', address) = Some(current)]_vars
    /\ []((pc = "end" /\ outcome = "baseline") =>
            /\ sends = <<>>
            /\ sent = 0
            /\ get_state(state_file, address) = Some(current))

C7_Witness ==
    /\ pc = "end" /\ outcome = "baseline" /\ first_run /\ Suppress
    /\ cfg.on_new_position
    /\ Cardinality(TokensOf(current)) = 2

\* C8 as claimed: on a first run with suppression off there is a
\* new_position event for every fetched position.
C8_NewPositionForEveryFetchedPosition ==
    (AfterDetection /\ first_run /\ ~Suppress) =>
        \A i \in 1..Len(current) :
            \E j \in EventIdx("new_position") :
                events[j].position = current[i]

\* C8 amended: on a first run with suppression off the previous snapshot is
\* taken as empty, the detector emits exactly one new_position event for
\* every distinct non-empty token_id among the fetched positions (carrying
\* the last fetched position with that token_id; a position with an empty
\* token_id gets no event), and the pipeline ends with the fetched snapshot
\* stored.
C8_FirstRunUnsuppressedAllNew ==
    /\ [][(pc = "load" /\ ~HasEntry(address) /\ ~Suppress) =>
            /\ pc' = "detect"
            /\ first_run'
            /\ previous' = <<>>
            /\ UNCHANGED state_file]_vars
    /\ []((AfterDetection /\ first_run /\ ~Suppress) => AllNewPositions)
    /\ []((pc = "end" /\ first_run /\ ~Suppress) =>
            /\ outcome = "persisted"
            /\ get_state(state_file, address) = Some(current))

C8_Witness ==
    /\ pc = "end" /\ first_run /\ ~Suppress
    /\ Len(current) = 2
    /\ Len(events) = 1
    /\ get_state(state_file, address) = Some(current)

\* C9: get_state gives None exactly for the addresses never saved, and the
\* empty list after an empty list was saved; when the stored snapshot is the
\* empty list the orchestrator goes on to the detector with an empty
\* previous snapshot, suppression on or off, and every fetched token_id is
\* reported as a new_position.
C9_EmptySnapshotIsNotFirstRun ==
    /\ [](\A a \in Addresses :
            a \notin saved <=> get_state(state_file, a) = None)
    /\ [][(pc \in {"load", "persist"} /\ pc' = "end" /\ current = <<>>) =>
            get_state(state_file', address) = Some(<<>>)]_vars
    /\ [][(pc = "load" /\ get_state(state_file, address) = Some(<<>>)) =>
            /\ pc' = "detect"
            /\ ~first_run'
            /\ previous' = <<>>]_vars
    /\ []((AfterDetection /\ ~first_run /\ previous = <<>>) =>
            AllNewPositions)

C9_Witness ==
    /\ pc = "notify" /\ Suppress /\ ~first_run
    /\ address \in saved
    /\ get_state(state_file, address) = Some(<<>>)
    /\ EventIdx("new_position") # {}

\* C10: when the fetch has succeeded, the user's pipeline ends with the
\* just-fetched list as the stored snapshot of the address, whatever was
\* detected and whichever deliveries succeeded.
C10_FetchedSnapshotStoredAtEnd ==
    (pc = "end" /\ fetched) =>
        get_state(state_file, address) = Some(current)

C10_Witness ==
    /\ pc = "end" /\ fetched /\ outcome = "persisted"
    /\ Len(delivered) = 2
    /\ delivered[1] # delivered[2]
    /\ get_state(state_file, address) = Some(current)

----------------------------------------------------------------------------
(* Errors in one user's pipeline *)

\* C11: an exception raised in any step of one user's pipeline (resolve,
\* fetch, state load, detect, notify, persist) is caught inside run_cycle:
\* the pipeline ends as failed with run_cycle still running, and the only
\* step from the end of a failed pipeline is the start of the pipeline of
\* the next user in the configured list.
C11_ErrorInOneUserDoesNotStopTheCycle ==
    /\ [](pc # "crashed")
    /\ [][(outcome # "failed" /\ outcome' = "failed") =>
            (pc' = "end" /\ idx' = idx)]_vars
    /\ [][(pc = "end" /\ outcome = "failed") =>
            /\ pc' = "resolve"
            /\ outcome' = "none"
            /\ idx' = IF idx < Len(Monitored) THEN idx + 1 ELSE 1]_vars

\* The second user's pipeline has run to its save while the first user's
\* has failed in every cycle so far.
C11_Witness ==
    /\ idx = 2 /\ pc = "end" /\ outcome = "persisted"
    /\ "0xA" \notin saved
    /\ "0xB" \in saved

\* C12: when the wallet resolution or the position fetch of a user fails,
\* no step of that pipeline has changed the state file (the failing user's
\* entry or absence of one, and every other address's entry), and nothing
\* was detected or handed to the transport for that user.
C12_FailedResolveOrFetchLeavesStore ==
    /\ [][(pc \in {"resolve", "fetch"}) =>
            (state_file' = state_file /\ saved' = saved)]_vars
    /\ [][(pc \in {"resolve", "fetch"} /\ outcome' = "failed") =>
            /\ pc' = "end"
            /\ \A a \in Addresses :
                  get_state(state_file', a) = get_state(state_file, a)
            /\ sends' = <<>> /\ delivered' = <<>> /\ sent' = 0]_vars
    /\ []((pc = "end" /\ outcome = "failed" /\ ~fetched) =>
            (events = <<>> /\ sends = <<>> /\ delivered = <<>>))

\* The first user's fetch fails in a cycle after one in which both users'
\* snapshots were stored.
C12_Witness ==
    /\ idx = 1 /\ pc = "end" /\ outcome = "failed" /\ ~fetched
    /\ get_state(state_file, "0xA") # None
    /\ get_state(state_file, "0xA") # Some(<<>>)
    /\ HasEntry("0xB")

----------------------------------------------------------------------------
(* Notification delivery *)

\* What the next cycle detects for this user if the fetch returns the same
\* positions again: the detector on the fetched list and the stored snapshot.
DetectedAgain ==
    detect_changes(user, current, OrEmpty(get_state(state_file, address)),
                   cfg.on_position_increase, cfg.on_position_closed, clock)

FailedDeliveries == {i \in 1..Len(delivered) : ~delivered[i]}

\* C13 as claimed: when a pipeline in which events were handed to the
\* transport has ended, every event whose delivery failed is detected again
\* by the next cycle on the same positions.
C13_FailedDeliveryDetectedAgain ==
    (pc = "end" /\ sends # <<>>) =>
        \A i \in FailedDeliveries :
            \E j \in 1..Len(DetectedAgain) :
                /\ DetectedAgain[j].event_type = sends[i].event_type
                /\ DetectedAgain[j].position.token_id =
                      sends[i].position.token_id

\* C13 amended: delivery is attempted once per handed event and never again:
\* when a pipeline in which events were handed to the transport has ended,
\* every handed event has had its one attempt, the fetched list is the
\* stored snapshot whichever deliveries failed, and the next cycle on the
\* same positions detects nothing.
C13_FailedDeliveryNotRetried ==
    (pc = "end" /\ sends # <<>>) =>
        /\ Len(delivered) = Len(sends)
        /\ get_state(state_file, address) = Some(current)
        /\ DetectedAgain = <<>>

C13_Witness ==
    /\ pc = "end" /\ Len(sends) = 2
    /\ FailedDeliveries = {1, 2}
    /\ sent = 0
    /\ DetectedAgain = <<>>

\* The flag of an event's type in the configuration.
FlagOf(event) ==
    \/ event.event_type = "new_position" /\ cfg.on_new_position
    \/ event.event_type = "position_increased" /\ cfg.on_position_increase
    \/ event.event_type = "position_closed" /\ cfg.on_position_closed

EnabledIdx == {i \in 1..Len(events) : FlagOf(events[i])}

\* the place of events[i] among the enabled events
Rank(i) == Cardinality({j \in EnabledIdx : j <= i})

\* C14: send_events returns for every list of events and every outcome of
\* each delivery (accepted, rejected with ok = false, exception): the
\* events handed to send_event are the enabled events in list order, each
\* one attempted whatever became of the ones before it, and the count
\* returned is the number of enabled events whose delivery was accepted.
C14_SendEventsReturnsCountOfDelivered ==
    pc = "n_done" =>
        /\ outcome = "returned"
        /\ Len(sends) = Cardinality(EnabledIdx)
        /\ Len(delivered) = Len(sends)
        /\ \A i \in EnabledIdx :
              /\ sends[Rank(i)] = events[i]
              /\ delivered[Rank(i)] = (deliveries[i] = "ok")
        /\ sent = Cardinality({i \in EnabledIdx : deliveries[i] = "ok"})

C14_Witness ==
    /\ pc = "n_done" /\ outcome = "returned"
    /\ deliveries = <<"exception", "rejected", "ok">>
    /\ EnabledIdx = {1, 2, 3}
    /\ delivered = <<FALSE, FALSE, TRUE>>
    /\ sent = 1

\* C15: an event whose type's flag is false is never handed to the
\* transport and never counted: the events handed are exactly the detected
\* events whose flag is true, in order, the count is the number of those
\* delivered; and the pipeline still ends with the fetched list stored.
C15_DisabledTypeNeverSent ==
    /\ \A i \in 1..Len(sends) : FlagOf(sends[i])
    /\ (pc \in {"persist", "end"} /\ events # <<>>) =>
          /\ sends = SelectSeq(events, FlagOf)
          /\ Len(delivered) = Len(sends)
          /\ sent = Cardinality({i \in 1..Len(delivered) : delivered[i]})
    /\ (pc = "end" /\ events # <<>>) =>
          get_state(state_file, address) = Some(current)

C15_Witness ==
    /\ pc = "end" /\ outcome = "persisted"
    /\ ~cfg.on_new_position
    /\ Len(events) = 2
    /\ events[1].event_type = "new_position"
    /\ Len(sends) = 1 /\ sent = 1
    /\ get_state(state_file, address) = Some(current)
    /\ previous # current

----------------------------------------------------------------------------
(* The detector's events *)

----------------------------------------------------------------------------
(* Rate limiting in get_json / post_json *)

RateLimited(response) ==
    response.kind = "status" /\ response.status_code = 429

OnlyRateLimits ==
    \A i \in 1..Len(http.met) : RateLimited(http.met[i])

\* the delay the server asked for: Retry-After, ten seconds without one
ServerDelay(response) ==
    IF response.header = None THEN 10 ELSE response.header[1]

----------------------------------------------------------------------------
(* The resolver's cache *)

\* the username of the call that made this step
Called(username) == rcall'.step = "resolve" /\ rcall'.username = username

\* C19: once a call has resolved a profile, every later call whose
\* username names that profile (ignoring case and a leading '@') returns
\* the address of that first resolution without a search request, whatever
\* the search API would answer now; and a key of the cache keeps its
\* address in every step but clear_cache.
C19_ResolvedUsernameServedFromCache ==
    /\ [][\A u \in Usernames :
            (Called(u) /\ rcall.known[Profile(u)] # None) =>
                /\ ~rcall'.raised
                /\ rcall'.address = rcall.known[Profile(u)][1]
                /\ ~rcall'.api_called
                /\ cache' = cache]_vars
    /\ [][\A k \in CacheKeys :
            (cache[k] # None /\ rcall'.step # "clear") =>
                cache'[k] = cache[k]]_vars

C19_Witness ==
    /\ rcall.step = "resolve" /\ rcall.hit
    /\ rcall.username = "@bob"
    /\ rcall.api = Found("0xA")
    /\ rcall.address = "0xB"
    /\ ~rcall.api_called
    /\ rcall.known["alice"] = None

\* C20: a call for a profile not resolved before, to which the search
\* answers with no matching profile, raises ValueError (a failed search
\* raises another error) and leaves the cache as it was; every call for a
\* profile not resolved before makes a search request, the call after a
\* not-found one included.
C20_NotFoundIsNotCached ==
    /\ [][\A u \in Usernames :
            (Called(u) /\ rcall.known[Profile(u)] = None) =>
                /\ rcall'.api_called
                /\ cache' # cache => ~rcall'.raised
                /\ rcall'.api = NotFound =>
                      (rcall'.raised /\ rcall'.error = "ValueError")
                /\ rcall'.api = SearchFails =>
                      (rcall'.raised /\ rcall'.error # "ValueError")
                /\ rcall'.raised => rcall'.known = rcall.known]_vars
    /\ [](rcall.error = "ValueError" =>
            \A k \in CacheKeys :
                Profile(k) = Profile(rcall.username) => cache[k] = None)

C20_Witness ==
    /\ rcall.step = "resolve" /\ rcall.username = "@Bob"
    /\ rcall.raised /\ rcall.error = "ValueError"
    /\ rcall.api_called
    /\ rcall.known["alice"] = Some("0xB")
    /\ cache["bob"] = None

----------------------------------------------------------------------------
(* The fetcher *)

\* the entries of the response, wrapped or not
Listed ==
    IF api_json.kind = "list" THEN api_json.items
    ELSE IF api_json.positions \notin {None, Some(<<>>)}
         THEN api_json.positions[1]
    ELSE IF api_json.data # None THEN api_json.data[1]
    ELSE <<>>

\* an entry is malformed when it is no object or its size is no number
WellFormed(entry) ==
    entry.is_dict /\ (entry.size = None \/ entry.size[1].parses)

\* C21: fetch_positions returns, never raises; for a response without
\* entries it returns the empty list, and otherwise one Position for every
\* well-formed entry, in the order of the entries, each with the token_id
\* and the size of its entry, and nothing for a malformed entry.
C21_MalformedEntriesDropped ==
    pc = "p_done" =>
        LET kept == SelectSeq(Listed, WellFormed)
        IN  /\ outcome = "returned"
            /\ Len(current) = Len(kept)
            /\ \A i \in 1..Len(kept) :
                  /\ current[i].token_id =
                        (IF kept[i].asset = None THEN NoToken
                         ELSE kept[i].asset[1])
                  /\ current[i].size =
                        (IF kept[i].size = None THEN 0
                         ELSE kept[i].size[1].value)
            /\ Listed = <<>> => current = <<>>

C21_Witness ==
    /\ pc = "p_done" /\ outcome = "returned"
    /\ api_json.kind = "dict"
    /\ Len(Listed) = 2
    /\ ~WellFormed(Listed[1])
    /\ Listed[2].asset = Some(1)
    /\ Len(current) = 1
    /\ current[1].token_id = 1

\* C28 as claimed: every Position the fetcher returns has side Yes, No or
\* Unknown.
C28_SideIsYesNoOrUnknown ==
    pc = "p_done" =>
        \A i \in 1..Len(current) : current[i].side \in {"Yes", "No", "Unknown"}

----------------------------------------------------------------------------
(* The store *)

Unreadable == state_file.kind = "corrupt"

\* C22: while the state file is corrupt, get_state returns None and
\* is_first_run returns true for every address; the load step of a cycle
\* over such a file does not fail but goes on as a first run with an empty
\* previous snapshot, and the first save over it writes a readable file
\* that holds the saved user's fetched list and no other entry.
C22_CorruptFileIsEmptyState ==
    /\ [](Unreadable =>
            \A a \in Addresses :
                /\ get_state(state_file, a) = None
                /\ is_first_run(state_file, a))
    /\ [][(pc = "load" /\ Unreadable) =>
            /\ first_run' /\ previous' = <<>>
            /\ outcome' # "failed"
            /\ pc' = (IF Suppress THEN "end" ELSE "detect")]_vars
    /\ [][(pc \in {"load", "persist"} /\ Unreadable
                /\ state_file' # state_file) =>
            /\ state_file'.kind = "json"
            /\ get_state(state_file', address) = Some(current)
            /\ \A a \in Addresses \ {address} :
                  get_state(state_file', a) = None]_vars

\* A file that held the user's snapshot was damaged, and the user's load
\* step has read it as a first run.
C22_Witness ==
    /\ pc = "detect" /\ Unreadable
    /\ state_file.raw[address] # None
    /\ first_run /\ previous = <<>>

\* C23: save_state(identifier, positions) leaves the identifier's entry
\* equal to the given list, whatever list the entry held before, and leaves
\* what get_state returns for every other identifier as it was; so a save
\* for another identifier leaves the entry of this one as it was.
C23_SaveStateReplacesOneEntry ==
    /\ [][(pc # "s_saved" /\ pc' = "s_saved") =>
            /\ get_state(state_file', address') = Some(current')
            /\ \A a \in Addresses \ {address'} :
                  get_state(state_file', a) = get_state(state_file, a)]_vars
    /\ [][(pc = "s_saved" /\ pc' = "s_saved") =>
            get_state(state_file', address) = get_state(state_file, address)]_vars

\* A one-position list has replaced a stored two-position list while the
\* other address keeps its stored snapshot.
C23_Witness ==
    /\ pc = "s_saved"
    /\ Len(current) = 1
    /\ get_state(state_file, address) = Some(current)
    /\ \E a \in Addresses \ {address} :
          /\ get_state(state_file, a) # None
          /\ Len(get_state(state_file, a)[1]) = 2

----------------------------------------------------------------------------
(* The order of the steps of a cycle *)

PipelineEnds == {"persisted", "baseline", "failed"}

\* C24: the cycle moves to another user only from the end of the current
\* user's pipeline, which has ended by the save, by the first-run baseline
\* or by a failure, and then to the next user of the list (after the last
\* one, to the first of the next cycle); a user's first step starts only
\* there, and every step in between belongs to the current user.
C24_UsersProcessedOneAfterAnother ==
    /\ [][(idx' # idx) =>
            /\ pc = "end" /\ outcome \in PipelineEnds
            /\ pc' = "resolve"
            /\ idx' = (IF idx < Len(Monitored) THEN idx + 1 ELSE 1)]_vars
    /\ [][(pc # "resolve" /\ pc' = "resolve") =>
            (pc = "end" /\ idx' # idx)]_vars
    /\ [](pc = "end" => outcome \in PipelineEnds)
    /\ [](address # "" =>
            address = (IF idx = 1 THEN "0xA" ELSE "0xB"))

\* The second user's fetch is about to begin after the first user's
\* pipeline has failed without a save.
C24_Witness ==
    /\ idx = 2 /\ pc = "fetch"
    /\ "0xA" \notin saved
    /\ get_state(state_file, "0xA") = None
    /\ cfg.first_run_suppress_notifications = FALSE

\* C25: outside the first-run baseline the state file is written only by
\* the save step, which is entered only from a detection without events or
\* from a notification step in which every handed event got its delivery
\* outcome; a step that fails leaves the state file as it was; and every
\* stored snapshot is a whole list some fetch returned for that address.
C25_StoreWrittenLastAndWhole ==
    /\ [][(state_file' # state_file) =>
            \/ pc = "persist" /\ fetched /\ outcome' = "persisted"
            \/ pc = "load" /\ fetched /\ outcome' = "baseline"]_vars
    /\ [][(pc' = "persist") =>
            \/ pc = "detect" /\ events' = <<>>
            \/ pc = "notify" /\ Len(delivered') = Len(sends')]_vars
    /\ [][(outcome' = "failed") =>
            \A a \in Addresses :
                get_state(state_file', a) = get_state(state_file, a)]_vars
    /\ [](\A a \in Addresses :
            get_state(state_file, a) # None =>
                get_state(state_file, a)[1] \in ApiPositions(a))

\* A pipeline has failed after its notification attempts, and the stored
\* snapshot is still the earlier one, not the list fetched in this cycle.
C25_Witness ==
    /\ pc = "end" /\ outcome = "failed" /\ fetched
    /\ sends # <<>>
    /\ get_state(state_file, address) # None
    /\ get_state(state_file, address) # Some(current)
    /\ Len(current) = 2

----------------------------------------------------------------------------
(* The attempts of one HTTP call *)

IsTransient(met) == met.kind \in {"timeout", "network"}

Failure(met) == IsTransient(met) \/ RateLimited(met)

C27_StatusErrorOnlyAfterAllRetries ==
    http.result = "HTTPStatusError" => Len(http.met) = _MAX_RETRIES

----------------------------------------------------------------------------
(* Repeated token_ids *)

EventsAbout(t) == {i \in 1..Len(events) : events[i].position.token_id = t}

\* C29: whatever token_ids repeat in current or previous, the events of one
\* call hold at most one event per token_id and none for the empty one;
\* the event of a token_id carries, and was decided from, the last
\* position with that token_id in current and the last one in previous.
C29_RepeatedTokenLastOccurrence ==
    DetectDone =>
        /\ EventsAbout(NoToken) = {}
        /\ \A t \in TokenIds \ {NoToken} :
              /\ Cardinality(EventsAbout(t)) <= 1
              /\ \A i \in EventsAbout(t) :
                    CASE events[i].event_type = "new_position" ->
                           /\ t \notin TokensOf(previous)
                           /\ events[i].position = LastWith(current, t)
                      [] events[i].event_type = "position_increased" ->
                           /\ t \in TokensOf(previous)
                           /\ events[i].position = LastWith(current, t)
                           /\ events[i].previous_size =
                                 Some(LastWith(previous, t).size)
                           /\ MeaningfulIncrease(LastWith(current, t),
                                                 LastWith(previous, t))
                      [] events[i].event_type = "position_closed" ->
                           /\ t \notin TokensOf(current)
                           /\ events[i].position = LastWith(previous, t)
              /\ (/\ t \in TokensOf(current) \cap TokensOf(previous)
                  /\ cfg.on_position_increase
                  /\ MeaningfulIncrease(LastWith(current, t),
                                        LastWith(previous, t))) =>
                    EventsAbout(t) # {}
              /\ t \in TokensOf(current) \ TokensOf(previous) =>
                    EventsAbout(t) # {}

\* Both snapshots hold the token_id twice; the last occurrences differ by a
\* meaningful increase, the first ones do not.
C29_Witness ==
    /\ DetectDone
    /\ current = <<Position(1, 100), Position(1, 151)>>
    /\ previous = <<Position(1, 151), Position(1, 100)>>
    /\ Len(events) = 1
    /\ events[1].event_type = "position_increased"
    /\ events[1].position = current[2]
    /\ events[1].previous_size = Some(100)

----------------------------------------------------------------------------
(* The waits of one HTTP call *)

AllTransient == \A i \in 1..Len(http.met) : IsTransient(http.met[i])

\* C33 as claimed: a call in which every attempt met a timeout or network
\* error and which has raised RuntimeError has slept a backoff delay only
\* between its attempts, one delay fewer than its attempts.
C33_BackoffOnlyBetweenAttempts ==
    (http.result = "RuntimeError" /\ AllTransient) =>
        Len(http.slept) = Len(http.met) - 1

----------------------------------------------------------------------------
(* Cycle after cycle *)

\* the store holds for the user the very list this cycle has fetched
SameAsStored == get_state(state_file, address) = Some(current)

\* C31: the entry of an address changes only in the load or save step of
\* that address's own pipeline, so what a completed pipeline stored is
\* what the user's next pipeline loads; and when the list fetched equals
\* the stored one, the load step goes on to detection with previous equal
\* to current, detection yields no event and goes straight to the save,
\* and the pipeline ends with no event handed to the notifier and nothing
\* sent, under every setting of the options.
C31_SameListNoEvents ==
    /\ [][\A a \in Addresses :
            get_state(state_file', a) # get_state(state_file, a) =>
                (a = address /\ pc \in {"load", "persist"})]_vars
    /\ [][(pc = "load" /\ SameAsStored) =>
            (pc' = "detect" /\ ~first_run' /\ previous' = current)]_vars
    /\ [][(pc = "detect" /\ ~first_run /\ previous = current) =>
            (events' = <<>> /\ pc' = "persist")]_vars
    /\ []((pc \in {"persist", "end"} /\ fetched /\ ~first_run
              /\ previous = current) =>
            (events = <<>> /\ sends = <<>> /\ delivered = <<>> /\ sent = 0))

\* With every notification on, a second pipeline of the first user has
\* ended after fetching the two positions the first one stored, one of them
\* without token_id.
C31_Witness ==
    /\ pc = "end" /\ outcome = "persisted" /\ idx = 1
    /\ cfg.on_new_position /\ cfg.on_position_increase
    /\ cfg.on_position_closed
    /\ ~first_run
    /\ previous = current
    /\ current = <<Position(NoToken, 100), Position(1, 151)>>
    /\ events = <<>> /\ sent = 0

\* C32: while no pipeline of an address has reached a store write, the
\* store has no entry for it (get_state returns None, is_first_run is
\* true); a pipeline that fails at resolve or fetch writes nothing; and
\* with suppression on, the load step of the first pipeline whose fetch
\* succeeded stores the fetched list as the baseline and ends the pipeline
\* with nothing detected, handed to the notifier or sent.
C32_FirstRunUntilStoreWrite ==
    /\ [](\A a \in Addresses :
            a \notin saved =>
                (get_state(state_file, a) = None /\ is_first_run(state_file, a)))
    /\ [][(pc \in {"resolve", "fetch"} /\ outcome' = "failed") =>
            (saved' = saved /\ state_file' = state_file)]_vars
    /\ [][(pc = "load" /\ address \notin saved /\ Suppress) =>
            /\ first_run'
            /\ pc' = "end" /\ outcome' = "baseline"
            /\ events' = <<>> /\ sends' = <<>> /\ sent' = 0
            /\ get_state(state_file', address) = Some(current)
            /\ saved' = saved \cup {address}]_vars

\* The first user's baseline is taken in a cycle after one in which its
\* pipeline failed and the second user's pipeline reached its store write.
C32_Witness ==
    /\ pc = "end" /\ outcome = "baseline" /\ idx = 1
    /\ Suppress
    /\ first_run
    /\ "0xB" \in saved
    /\ current # <<>>
    /\ sends = <<>>

====
